---- MODULE Spec2Model ----
(***************************************************************************)
(* Model of the test-execution engine of Codeforces-Companion:             *)
(* TestCaseHandler (handleRunTests, compileCppFile, runTestCases,          *)
(* runSingleTest, compareOutputs, showTestResults, cleanup).               *)
(*                                                                         *)
(* Texts are sequences of one-character strings.  One TestCaseHandler run  *)
(* is a state machine whose position is pc; every child process, timer and *)
(* promise created by runSingleTest keeps its own state, so that events    *)
(* arriving after the promise has settled are part of the model.           *)
(***************************************************************************)
EXTENDS Integers, Sequences, FiniteSets, TLC

(* ------------------------------ bounds --------------------------------- *)
MaxCases == 2
MaxOut == 2
MaxErr == 1
TickMs == 5000
MaxLen == 3
MaxPad == 2
PipeCap == 1
MaxIn == 2
MaxProg == 3
MaxCalls == 3

(* -------------------------- program constants -------------------------- *)
TIMEOUT == 5000

(* ------------------------------- texts --------------------------------- *)
NL == "\n"
SP == " "

\* String.prototype.trimEnd / trim strip white space; of the alphabet the
\* space and the line feed are white space.
IsWhiteSpace(c) == c \in {SP, NL}

RECURSIVE trimEnd(_)
trimEnd(s) ==
    IF s = <<>> THEN <<>>
    ELSE IF IsWhiteSpace(s[Len(s)]) THEN trimEnd(SubSeq(s, 1, Len(s) - 1))
    ELSE s

RECURSIVE trimStart(_)
trimStart(s) ==
    IF s = <<>> THEN <<>>
    ELSE IF IsWhiteSpace(s[1]) THEN trimStart(Tail(s))
    ELSE s

trim(s) == trimStart(trimEnd(s))

\* output.split('\n'): the lines between the line feeds (one more line than
\* there are line feeds; the empty text is one empty line).
RECURSIVE split(_)
split(s) ==
    IF \A p \in 1..Len(s) : s[p] # NL THEN <<s>>
    ELSE LET p == CHOOSE q \in 1..Len(s) :
                      s[q] = NL /\ \A r \in 1..(q - 1) : s[r] # NL
         IN  <<SubSeq(s, 1, p - 1)>> \o split(SubSeq(s, p + 1, Len(s)))

\* lines.join('\n')
RECURSIVE join(_)
join(lines) ==
    IF Len(lines) = 0 THEN <<>>
    ELSE IF Len(lines) = 1 THEN lines[1]
    ELSE lines[1] \o <<NL>> \o join(Tail(lines))

\* Variant of mapTrimEnd: the lines are left as they are.
mapTrimEndNone(lines) == lines

mapTrimEnd(lines) == [k \in 1..Len(lines) |-> trimEnd(lines[k])]

\* Variant of normalizeOutput: instead of the final trim, one final line feed
\* is removed.
normalizeOutputChop(output) ==
    LET t == join(mapTrimEnd(split(output)))
    IN  IF t # <<>> /\ t[Len(t)] = NL THEN SubSeq(t, 1, Len(t) - 1) ELSE t

normalizeOutput(output) == trim(join(mapTrimEnd(split(output))))

\* Variant of compareOutputs: the texts compared as they are.
compareOutputsRaw(actual, expected) == actual = expected

compareOutputs(actual, expected) ==
    normalizeOutput(actual) = normalizeOutput(expected)


(* ----------------------------- data model ------------------------------ *)
\* The code of a 'close' event: Null (the process ended by a signal) or <<n>>.
Null == <<>>
ExitCodes == {0, 1, 2}
CloseCodes == {Null} \cup {<<n>> : n \in ExitCodes}
\* No 'close' event has been emitted yet.
NotClosed == <<-1>>

\* The sample tests a problem may carry (input and expected output).
TestCaseSet ==
    {[input |-> <<"1">>, output |-> <<"a">>],
     [input |-> <<"2">>, output |-> <<"a", NL>>],
     [input |-> <<"3">>, output |-> <<SP, "a">>]}
Suites == UNION {[1..n -> TestCaseSet] : n \in 0..MaxCases}

OutChunks == {<<"a">>, <<NL>>}
ErrChunks == {<<"e">>}
SpawnErrors == {"spawn ENOTDIR"}

\* TestResult.error: null or one of the texts built by the handler.
ErrNull == [kind |-> "null", code |-> 0, stderr |-> <<>>, message |-> ""]
ErrTimeLimit ==
    [kind |-> "Time Limit Exceeded", code |-> 0, stderr |-> <<>>, message |-> ""]
ErrTerminated(err) ==
    [kind |-> "Process terminated unexpectedly", code |-> 0, stderr |-> err,
     message |-> ""]
ErrRuntime(n, err) ==
    [kind |-> "Runtime Error", code |-> n, stderr |-> err, message |-> ""]
ErrWrongAnswer ==
    [kind |-> "Wrong Answer", code |-> 0, stderr |-> <<>>, message |-> ""]
ErrException(msg) ==
    [kind |-> "exception", code |-> 0, stderr |-> <<>>, message |-> msg]

TestResult(n, p, tc, actual, err, ms) ==
    [testNumber |-> n, passed |-> p, input |-> tc.input,
     expectedOutput |-> tc.output, actualOutput |-> actual, error |-> err,
     executionTime |-> ms]

NoResult ==
    [testNumber |-> 0, passed |-> FALSE, input |-> <<>>, expectedOutput |-> <<>>,
     actualOutput |-> <<>>, error |-> ErrNull, executionTime |-> 0]

VARIABLES
    pc,          \* position of handleRunTests
    executablePath, \* handleRunTests: executablePath ("none" before it is set)
    testCases,   \* problemData.sampleTests
    exe,         \* the executable artifact on disk: "absent" or "present"
    i,           \* 1-based loop position of runTestCases (the code's i + 1)
    results,     \* runTestCases: results
    invoked,     \* testNumbers passed to runSingleTest, in call order
    proc,        \* per test: state of the child process
    closeCode,   \* per test: the code of the child's 'close' event
    stdin,       \* per test: operations made on process.stdin
    stdout,      \* per test: the closure variable stdout
    stderr,      \* per test: the closure variable stderr
    timer,       \* per test: state of the setTimeout timer
    startTime,   \* per test: Date.now() at the start of runSingleTest
    pstate,      \* per test: state of the promise returned by runSingleTest
    pvalue,      \* per test: value the promise settled with
    preason,     \* per test: reason the promise was rejected with
    now,         \* Date.now()
    messages,    \* messages shown through vscode.window, in order
    report,      \* what showTestResults presented
    cleanups,    \* number of calls of cleanup
    unhandled,   \* tests whose child emitted an 'error' nobody listens to
    norm,        \* compareOutputs applied to chosen texts (see NormSpec)
    overlap,     \* two overlapping calls of handleRunTests (see OverlapSpec)
    pipe,        \* the pipes between the runner and one child (see PipeSpec)
    view,        \* ProblemWebviewProvider: panel, data, calls (see ViewSpec)
    scrape       \* one call of extractProblemData (see ScrapeSpec)

vars == <<pc, executablePath, testCases, exe, i, results, invoked, proc,
          closeCode, stdin, stdout, stderr,
          timer, startTime, pstate, pvalue, preason, now, messages, report,
          cleanups, unhandled, norm, overlap, pipe, view, scrape>>

\* The state that one call of handleRunTests does not touch.
outside == <<norm, overlap, pipe, view, scrape>>

procVars == <<proc, closeCode, stdin, stdout, stderr, timer, startTime, pstate, pvalue,
              preason>>

Slots == 1..MaxCases

\* compareOutputs not in use.
NormOff ==
    [phase |-> "off", a |-> <<>>, b |-> <<>>, na |-> <<>>, nna |-> <<>>,
     cmp |-> FALSE, pa |-> <<>>, pb |-> <<>>, cmp2 |-> FALSE]

\* No overlapping calls under observation.
OverlapOff ==
    [n |-> 0, run |-> <<"off", "off">>, cur |-> <<0, 0>>,
     child |-> <<"none", "none">>, artifact |-> "absent", version |-> 0]

\* No child under observation at the level of its pipes.
PipeOff ==
    [phase |-> "off", prog |-> <<>>, at |-> 1, toSend |-> 0, inPipe |-> 0,
     outPipe |-> 0, errPipe |-> 0, out |-> 0, err |-> 0, child |-> "none",
     timer |-> "none", resolved |-> "none"]

\* A ProblemWebviewProvider right after its construction.
ViewOff ==
    [panel |-> "none", html |-> "empty", currentProblemData |-> "undefined",
     calls |-> <<>>]

\* extractProblemData not called.
ScrapeOff ==
    [pc |-> "off", step |-> 0, url |-> "none", api |-> "none", attempt |-> 0,
     open |-> 0, launched |-> 0, failure |-> "none", result |-> "none"]

NoReport ==
    [shown |-> FALSE, passedTests |-> 0, totalTests |-> 0, entries |-> <<>>]

\* A TestCaseHandler on which handleRunTests has not been called.
HandlerInit ==
    /\ pc = "idle"
    /\ executablePath = "none"
    /\ exe = "absent"
    /\ i = 1
    /\ results = <<>>
    /\ invoked = <<>>
    /\ proc = [k \in Slots |-> "none"]
    /\ closeCode = [k \in Slots |-> NotClosed]
    /\ stdin = [k \in Slots |-> <<>>]
    /\ stdout = [k \in Slots |-> <<>>]
    /\ stderr = [k \in Slots |-> <<>>]
    /\ timer = [k \in Slots |-> "none"]
    /\ startTime = [k \in Slots |-> 0]
    /\ pstate = [k \in Slots |-> "none"]
    /\ pvalue = [k \in Slots |-> NoResult]
    /\ preason = [k \in Slots |-> ""]
    /\ now = 0
    /\ messages = <<>>
    /\ report = NoReport
    /\ cleanups = 0
    /\ unhandled = {}

Init ==
    /\ HandlerInit
    /\ testCases \in Suites
    /\ norm = NormOff
    /\ overlap = OverlapOff
    /\ pipe = PipeOff
    /\ view = ViewOff
    /\ scrape = ScrapeOff


(* --------------------------- handleRunTests ---------------------------- *)
Show(level, text) == messages' = Append(messages, [level |-> level, text |-> text])

\* A continuation of the async functions is ready to run: it runs (as a
\* microtask) before the event loop delivers any further event.
ContinuationReady ==
    \/ pc \in {"loop", "show", "cleanup"}
    \/ pc = "await" /\ pstate[i] \in {"fulfilled", "rejected"}

\* Variant of Start: the guards report the error and the run goes on to the
\* compilation.
StartNoReturn ==
    /\ pc = "idle"
    /\ \E pd \in {"undefined", "defined"}, editor \in {"none", "other", "cpp"} :
         IF pd = "undefined"
         THEN Show("error", "No problem data exisis")
         ELSE IF editor # "cpp"
         THEN Show("error", "Please open a C++ file to run tests")
         ELSE Show("info", "Compiling and running tests...")
    /\ pc' = "compile"
    /\ UNCHANGED <<executablePath, testCases, outside, exe, i, results, invoked,
                   procVars, now, report, cleanups, unhandled>>

\* handleRunTests up to its first await: the guards on the problem data and
\* on the active editor, then the call of compileCppFile.
Start ==
    /\ pc = "idle"
    /\ \E pd \in {"undefined", "defined"}, editor \in {"none", "other", "cpp"} :
         IF pd = "undefined"
         THEN /\ Show("error", "No problem data exisis")
              /\ pc' = "done"
         ELSE IF editor # "cpp"
         THEN /\ Show("error", "Please open a C++ file to run tests")
              /\ pc' = "done"
         ELSE /\ Show("info", "Compiling and running tests...")
              /\ pc' = "compile"
    /\ UNCHANGED <<executablePath, testCases, outside, exe, i, results, invoked,
                   procVars, now, report, cleanups, unhandled>>

\* Variant of CompileDone: the compiler's failure is reported and the run
\* goes on to the tests.
CompileDoneContinue ==
    /\ pc = "compile"
    /\ \E ok \in BOOLEAN :
         IF ok
         THEN /\ exe' = "present"
              /\ executablePath' = "exe"
              /\ UNCHANGED messages
         ELSE /\ Show("error", "Test execution failed: Compilation failed")
              /\ UNCHANGED <<executablePath, exe>>
    /\ pc' = "loop"
    /\ i' = 1
    /\ results' = <<>>
    /\ UNCHANGED <<testCases, outside, invoked, procVars, now, report, cleanups,
                   unhandled>>

\* compileCppFile: the callback of cp.exec.  On success g++ has written the
\* executable and runTestCases starts; on failure the rejection reaches the
\* catch of handleRunTests.
CompileDone ==
    /\ pc = "compile"
    /\ \E ok \in BOOLEAN :
         IF ok
         THEN /\ exe' = "present"
              /\ executablePath' = "exe"
              /\ pc' = "loop"
              /\ i' = 1
              /\ results' = <<>>
              /\ UNCHANGED messages
         ELSE /\ Show("error", "Test execution failed: Compilation failed")
              /\ pc' = "done"
              /\ UNCHANGED <<executablePath, exe, i, results>>
    /\ UNCHANGED <<testCases, outside, invoked, procVars, now, report, cleanups,
                   unhandled>>

(* ---------------------------- runSingleTest ---------------------------- *)
\* Variant of ResolveP: the last settlement counts.
ResolvePLast(k, value) ==
    /\ pstate' = [pstate EXCEPT ![k] = "fulfilled"]
    /\ pvalue' = [pvalue EXCEPT ![k] = value]

\* resolve(value) of the promise of test k: only the first settlement counts.
ResolveP(k, value) ==
    IF pstate[k] = "pending"
    THEN /\ pstate' = [pstate EXCEPT ![k] = "fulfilled"]
         /\ pvalue' = [pvalue EXCEPT ![k] = value]
    ELSE UNCHANGED <<pstate, pvalue>>

\* Variant of RunSingleTest: the loop of runTestCases tests its condition
\* after the body, so that the body runs once for an empty list.
RunSingleTestDoWhile ==
    /\ pc = "loop"
    /\ i <= Len(testCases) \/ i = 1
    /\ invoked' = Append(invoked, i)
    /\ proc' = [proc EXCEPT ![i] = "running"]
    /\ stdin' = [stdin EXCEPT ![i] = << <<"write", <<NL>> >>, <<"end", <<>> >> >>]
    /\ timer' = [timer EXCEPT ![i] = "armed"]
    /\ startTime' = [startTime EXCEPT ![i] = now]
    /\ pstate' = [pstate EXCEPT ![i] = "pending"]
    /\ pc' = "await"
    /\ UNCHANGED <<executablePath, testCases, outside, exe, i, results, closeCode,
                   stdout, stderr, pvalue, preason, now, messages, report,
                   cleanups, unhandled>>

\* Variant of RunSingleTest: the input is written and the write side of the
\* child's standard input is left open.
RunSingleTestNoEnd ==
    /\ pc = "loop"
    /\ i <= Len(testCases)
    /\ invoked' = Append(invoked, i)
    /\ proc' = [proc EXCEPT ![i] = "running"]
    /\ stdin' = [stdin EXCEPT ![i] =
                   << <<"write", testCases[i].input \o <<NL>> >> >>]
    /\ timer' = [timer EXCEPT ![i] = "armed"]
    /\ startTime' = [startTime EXCEPT ![i] = now]
    /\ pstate' = [pstate EXCEPT ![i] = "pending"]
    /\ pc' = "await"
    /\ UNCHANGED <<executablePath, testCases, outside, exe, i, results, closeCode,
                   stdout, stderr, pvalue, preason, now, messages, report,
                   cleanups, unhandled>>

\* The executor of runSingleTest, called from the loop of runTestCases for
\* test i.  cp.spawn either starts the child, or fails to launch it and
\* reports that by an 'error' event of the child (for which the code
\* registers no listener), or throws, which rejects the promise.
RunSingleTest ==
    /\ pc = "loop"
    /\ i <= Len(testCases)
    /\ invoked' = Append(invoked, i)
    /\ \E launch \in {"started", "errorEvent", "throws"} :
         IF launch = "throws"
         THEN /\ \E msg \in SpawnErrors : preason' = [preason EXCEPT ![i] = msg]
              /\ pstate' = [pstate EXCEPT ![i] = "rejected"]
              /\ startTime' = [startTime EXCEPT ![i] = now]
              /\ UNCHANGED <<proc, stdin, timer, unhandled>>
         ELSE /\ proc' = [proc EXCEPT ![i] =
                             IF launch = "started" THEN "running" ELSE "failed"]
              /\ unhandled' =
                   IF launch = "started" THEN unhandled ELSE unhandled \cup {i}
              /\ stdin' = [stdin EXCEPT ![i] =
                             << <<"write", testCases[i].input \o <<NL>> >>,
                                <<"end", <<>> >> >>]
              /\ timer' = [timer EXCEPT ![i] = "armed"]
              /\ startTime' = [startTime EXCEPT ![i] = now]
              /\ pstate' = [pstate EXCEPT ![i] = "pending"]
              /\ UNCHANGED preason
    /\ pc' = "await"
    /\ UNCHANGED <<executablePath, testCases, outside, exe, i, results, closeCode,
                   stdout, stderr, pvalue, now, messages, report, cleanups>>

\* Number of characters held by the buffers of all tests.
RECURSIVE TotalLen(_, _)
TotalLen(buf, n) == IF n = 0 THEN 0 ELSE Len(buf[n]) + TotalLen(buf, n - 1)

\* process.stdout.on('data')
OnStdoutData(k) ==
    /\ ~ContinuationReady
    /\ proc[k] \in {"running", "terminating"}
    /\ TotalLen(stdout, MaxCases) < MaxOut
    /\ \E chunk \in OutChunks : stdout' = [stdout EXCEPT ![k] = @ \o chunk]
    /\ UNCHANGED <<pc, executablePath, testCases, outside, exe, i, results, invoked,
                   proc, closeCode, stdin, stderr, timer, startTime, pstate, pvalue, preason, now, messages,
                   report, cleanups, unhandled>>

\* process.stderr.on('data')
OnStderrData(k) ==
    /\ ~ContinuationReady
    /\ proc[k] \in {"running", "terminating"}
    /\ TotalLen(stderr, MaxCases) < MaxErr
    /\ \E chunk \in ErrChunks : stderr' = [stderr EXCEPT ![k] = @ \o chunk]
    /\ UNCHANGED <<pc, executablePath, testCases, outside, exe, i, results, invoked,
                   proc, closeCode, stdin, stdout, timer, startTime, pstate, pvalue, preason, now, messages,
                   report, cleanups, unhandled>>

\* Variant of OnTimeout: the callback only kills the child and leaves the
\* result to the 'close' listener.
OnTimeoutKillOnly(k) ==
    /\ ~ContinuationReady
    /\ timer[k] = "armed"
    /\ now - startTime[k] >= TIMEOUT
    /\ timer' = [timer EXCEPT ![k] = "fired"]
    /\ proc' = [proc EXCEPT ![k] = IF @ = "running" THEN "terminating" ELSE @]
    /\ UNCHANGED <<pc, executablePath, testCases, outside, exe, i, results, invoked,
                   closeCode, stdin, stdout, stderr, startTime, pstate, pvalue,
                   preason, now, messages, report, cleanups, unhandled>>

\* Variant of OnTimeout: the result carries no output.
OnTimeoutNoOutput(k) ==
    /\ ~ContinuationReady
    /\ timer[k] = "armed"
    /\ now - startTime[k] >= TIMEOUT
    /\ timer' = [timer EXCEPT ![k] = "fired"]
    /\ proc' = [proc EXCEPT ![k] = IF @ = "running" THEN "terminating" ELSE @]
    /\ ResolveP(k, TestResult(k, FALSE, testCases[k], <<>>, ErrTimeLimit,
                              now - startTime[k]))
    /\ UNCHANGED <<pc, executablePath, testCases, outside, exe, i, results, invoked,
                   closeCode, stdin, stdout, stderr, startTime, preason, now,
                   messages, report, cleanups, unhandled>>

\* The callback of setTimeout: kill the child and resolve with the verdict
\* Time Limit Exceeded.  process.kill() only sends SIGTERM.
OnTimeout(k) ==
    /\ ~ContinuationReady
    /\ timer[k] = "armed"
    /\ now - startTime[k] >= TIMEOUT
    /\ timer' = [timer EXCEPT ![k] = "fired"]
    /\ proc' = [proc EXCEPT ![k] = IF @ = "running" THEN "terminating" ELSE @]
    /\ ResolveP(k, TestResult(k, FALSE, testCases[k], stdout[k], ErrTimeLimit,
                              now - startTime[k]))
    /\ UNCHANGED <<pc, executablePath, testCases, outside, exe, i, results, invoked,
                   closeCode, stdin, stdout, stderr, startTime, preason, now,
                   messages, report, cleanups, unhandled>>

\* Variant of CloseResult: the exit code tested for truthiness only, so that a
\* null code is taken for a clean exit.
CloseResultTruthy(k, code) ==
    LET executionTime == now - startTime[k]
        passed == compareOutputs(stdout[k], testCases[k].output)
    IN  IF code # Null /\ code[1] # 0
        THEN TestResult(k, FALSE, testCases[k], stdout[k],
                        ErrRuntime(code[1], stderr[k]), executionTime)
        ELSE TestResult(k, passed, testCases[k], stdout[k],
                        IF passed THEN ErrNull ELSE ErrWrongAnswer,
                        executionTime)

\* Variant of CloseResult: the outputs are compared before the exit code is
\* looked at.
CloseResultCompareFirst(k, code) ==
    LET executionTime == now - startTime[k]
        passed == compareOutputs(stdout[k], testCases[k].output)
    IN  IF code = Null
        THEN TestResult(k, FALSE, testCases[k], stdout[k],
                        ErrTerminated(stderr[k]), executionTime)
        ELSE IF passed
        THEN TestResult(k, TRUE, testCases[k], stdout[k], ErrNull,
                        executionTime)
        ELSE IF code[1] # 0
        THEN TestResult(k, FALSE, testCases[k], stdout[k],
                        ErrRuntime(code[1], stderr[k]), executionTime)
        ELSE TestResult(k, FALSE, testCases[k], stdout[k], ErrWrongAnswer,
                        executionTime)

\* Variant of CloseResult: a missing exit code is reported like a nonzero
\* exit code.
CloseResultSignalAsRuntime(k, code) ==
    LET executionTime == now - startTime[k]
        passed == compareOutputs(stdout[k], testCases[k].output)
    IN  IF code = Null
        THEN TestResult(k, FALSE, testCases[k], stdout[k],
                        ErrRuntime(0, stderr[k]), executionTime)
        ELSE IF code[1] # 0
        THEN TestResult(k, FALSE, testCases[k], stdout[k],
                        ErrRuntime(code[1], stderr[k]), executionTime)
        ELSE TestResult(k, passed, testCases[k], stdout[k],
                        IF passed THEN ErrNull ELSE ErrWrongAnswer,
                        executionTime)

\* The result the 'close' listener resolves with.
CloseResult(k, code) ==
    LET executionTime == now - startTime[k]
        passed == compareOutputs(stdout[k], testCases[k].output)
    IN  IF code = Null
        THEN TestResult(k, FALSE, testCases[k], stdout[k],
                        ErrTerminated(stderr[k]), executionTime)
        ELSE IF code[1] # 0
        THEN TestResult(k, FALSE, testCases[k], stdout[k],
                        ErrRuntime(code[1], stderr[k]), executionTime)
        ELSE TestResult(k, passed, testCases[k], stdout[k],
                        IF passed THEN ErrNull ELSE ErrWrongAnswer,
                        executionTime)

\* Variant of OnClose: the timer is left armed.
OnCloseKeepTimer(k) ==
    /\ ~ContinuationReady
    /\ proc[k] \in {"running", "terminating"}
    /\ proc' = [proc EXCEPT ![k] = "closed"]
    /\ \E code \in CloseCodes :
         /\ closeCode' = [closeCode EXCEPT ![k] = code]
         /\ ResolveP(k, CloseResult(k, code))
    /\ UNCHANGED <<pc, executablePath, testCases, outside, exe, i, results, invoked,
                   stdin, stdout, stderr, timer, startTime, preason, now,
                   messages, report, cleanups, unhandled>>

\* process.on('close'): the child has ended and its streams are closed.
OnClose(k) ==
    /\ ~ContinuationReady
    /\ proc[k] \in {"running", "terminating"}
    /\ proc' = [proc EXCEPT ![k] = "closed"]
    /\ timer' = [timer EXCEPT ![k] = IF @ = "armed" THEN "cleared" ELSE @]
    /\ \E code \in CloseCodes :
         /\ closeCode' = [closeCode EXCEPT ![k] = code]
         /\ ResolveP(k, CloseResult(k, code))
    /\ UNCHANGED <<pc, executablePath, testCases, outside, exe, i, results, invoked,
                   stdin, stdout, stderr, startTime, preason, now, messages,
                   report, cleanups, unhandled>>

\* Time passes while a timer is pending; an expired timer fires before time
\* advances further.
Tick ==
    /\ ~ContinuationReady
    /\ \E k \in Slots : timer[k] = "armed"
    /\ \A k \in Slots : timer[k] = "armed" => now - startTime[k] < TIMEOUT
    /\ now' = now + TickMs
    /\ UNCHANGED <<pc, executablePath, testCases, outside, exe, i, results, invoked,
                   procVars, messages, report, cleanups, unhandled>>


(* ----------------------------- runTestCases ---------------------------- *)
\* Variant of CaughtResult: the loop index taken for the test number.
CaughtResultZeroBased(k, errorMessage) ==
    TestResult(k - 1, FALSE, testCases[k], <<>>, ErrException(errorMessage), 0)

\* The result pushed by the catch clause of the loop.
CaughtResult(k, errorMessage) ==
    TestResult(k, FALSE, testCases[k], <<>>, ErrException(errorMessage), 0)

\* Variant of Resume: the try/catch encloses the loop, so that the first
\* rejection ends it.
ResumeAbortOnError ==
    /\ pc = "await"
    /\ pstate[i] \in {"fulfilled", "rejected"}
    /\ results' = Append(results,
                         IF pstate[i] = "fulfilled" THEN pvalue[i]
                         ELSE TestResult(i, FALSE, testCases[i], <<>>,
                                         ErrException(preason[i]), 0))
    /\ i' = IF pstate[i] = "fulfilled" THEN i + 1 ELSE Len(testCases) + 1
    /\ pc' = "loop"
    /\ UNCHANGED <<executablePath, testCases, outside, exe, invoked, procVars, now,
                   messages, report, cleanups, unhandled>>

\* The loop body after the await: push the result of test i, or the result
\* built by the catch clause, and go on with the next i.
Resume ==
    /\ pc = "await"
    /\ pstate[i] \in {"fulfilled", "rejected"}
    /\ results' = Append(results,
                         IF pstate[i] = "fulfilled" THEN pvalue[i]
                         ELSE CaughtResult(i, preason[i]))
    /\ i' = i + 1
    /\ pc' = "loop"
    /\ UNCHANGED <<executablePath, testCases, outside, exe, invoked, procVars, now,
                   messages, report, cleanups, unhandled>>

\* The loop condition fails: return results.
RunTestCasesReturn ==
    /\ pc = "loop"
    /\ i > Len(testCases)
    /\ pc' = "show"
    /\ UNCHANGED <<executablePath, testCases, outside, exe, i, results, invoked,
                   procVars, now, messages, report, cleanups, unhandled>>

(* ---------------------------- showTestResults -------------------------- *)
\* Variant of CountPassed: every result counted.
CountPassedAll(rs) == Len(rs)

\* results.filter(r => r.passed).length
RECURSIVE CountPassed(_)
CountPassed(rs) ==
    IF rs = <<>> THEN 0
    ELSE (IF rs[1].passed THEN 1 ELSE 0) + CountPassed(Tail(rs))

\* showTestResults: the summary message and the output channel.  A fault of
\* the presentation (a vscode.window call that throws) reaches the catch of
\* handleRunTests, which skips the call of cleanup.
ShowTestResults ==
    /\ pc = "show"
    /\ LET passedTests == CountPassed(results)
           totalTests == Len(results)
       IN  \E presented \in BOOLEAN :
             IF presented
             THEN /\ IF passedTests = totalTests
                     THEN Show("info", "All tests passed!")
                     ELSE Show("warning", "tests passed")
                  /\ report' = [shown |-> TRUE, passedTests |-> passedTests,
                                totalTests |-> totalTests, entries |-> results]
                  /\ pc' = "cleanup"
             ELSE /\ Show("error", "Test execution failed: presentation")
                  /\ pc' = "done"
                  /\ UNCHANGED report
    /\ UNCHANGED <<executablePath, testCases, outside, exe, i, results, invoked,
                   procVars, now, cleanups, unhandled>>

(* -------------------------------- cleanup ------------------------------ *)
\* Variant of Cleanup: no try/catch around unlinkSync, so that its failure
\* reaches the catch of handleRunTests.
CleanupNoCatch ==
    /\ pc = "cleanup"
    /\ cleanups' = cleanups + 1
    /\ \E unlinked \in BOOLEAN :
         IF exe = "present" /\ ~unlinked
         THEN /\ Show("error", "Test execution failed: unlink")
              /\ UNCHANGED exe
         ELSE /\ exe' = "absent"
              /\ UNCHANGED messages
    /\ pc' = "done"
    /\ UNCHANGED <<executablePath, testCases, outside, i, results, invoked, procVars,
                   now, report, unhandled>>

\* cleanup: delete the executable if it exists; a failing unlinkSync is
\* swallowed.
Cleanup ==
    /\ pc = "cleanup"
    /\ cleanups' = cleanups + 1
    /\ \E unlinked \in BOOLEAN :
         exe' = IF exe = "present" /\ unlinked THEN "absent" ELSE exe
    /\ pc' = "done"
    /\ UNCHANGED <<executablePath, testCases, outside, i, results, invoked, procVars,
                   now, messages, report, unhandled>>

Next ==
    \/ Start
    \/ CompileDone
    \/ RunSingleTest
    \/ Resume
    \/ RunTestCasesReturn
    \/ ShowTestResults
    \/ Cleanup
    \/ Tick
    \/ \E k \in Slots : OnStdoutData(k)
    \/ \E k \in Slots : OnStderrData(k)
    \/ \E k \in Slots : OnTimeout(k)
    \/ \E k \in Slots : OnClose(k)

Spec == Init /\ [][Next]_vars

(* ------------------- compareOutputs on chosen texts -------------------- *)
Alphabet == {"a", "b", SP, NL}
Texts == UNION {[1..n -> Alphabet] : n \in 0..MaxLen}

handlerVars ==
    <<pc, executablePath, testCases, exe, i, results, invoked, procVars, now,
      messages, report, cleanups, unhandled>>

NormInit ==
    /\ HandlerInit
    /\ testCases = <<>>
    /\ overlap = OverlapOff
    /\ pipe = PipeOff
    /\ view = ViewOff
    /\ scrape = ScrapeOff
    /\ \E t \in Texts : norm = [NormOff EXCEPT !.phase = "input", !.a = t]

\* normalizeOutput(output)
NormalizeText ==
    /\ norm.phase = "input"
    /\ norm' = [norm EXCEPT !.phase = "normalized", !.na = normalizeOutput(norm.a)]
    /\ UNCHANGED <<handlerVars, overlap, pipe, view, scrape>>

\* normalizeOutput applied to its own result
NormalizeAgain ==
    /\ norm.phase = "normalized"
    /\ norm' = [norm EXCEPT !.phase = "twice", !.nna = normalizeOutput(norm.na)]
    /\ UNCHANGED <<handlerVars, overlap, pipe, view, scrape>>

\* compareOutputs(actual, expected)
CompareTexts ==
    /\ norm.phase = "input"
    /\ \E t \in Texts :
         norm' = [norm EXCEPT !.phase = "compared", !.b = t, !.pa = norm.a,
                              !.pb = t, !.cmp = compareOutputs(norm.a, t)]
    /\ UNCHANGED <<handlerVars, overlap, pipe, view, scrape>>

RECURSIVE Repeat(_, _)
Repeat(c, n) == IF n = 0 THEN <<>> ELSE <<c>> \o Repeat(c, n - 1)

\* The text t with n spaces added at the end of its j-th line.
PadLine(t, j, n) ==
    join([split(t) EXCEPT ![j] = @ \o Repeat(SP, n)])

\* The texts obtained from t by adding spaces at the end of one line or
\* line feeds at the end of the text.
Paddings(t) ==
    {PadLine(t, j, n) : j \in 1..Len(split(t)), n \in 1..MaxPad}
      \cup {t \o Repeat(NL, n) : n \in 1..MaxPad}

\* compareOutputs on the texts of CompareTexts, one of them padded.
ComparePadded ==
    /\ norm.phase = "compared"
    /\ \/ \E t \in Paddings(norm.a) :
            norm' = [norm EXCEPT !.phase = "padded", !.pa = t,
                                 !.cmp2 = compareOutputs(t, norm.b)]
       \/ \E t \in Paddings(norm.b) :
            norm' = [norm EXCEPT !.phase = "padded", !.pb = t,
                                 !.cmp2 = compareOutputs(norm.a, t)]
    /\ UNCHANGED <<handlerVars, overlap, pipe, view, scrape>>

NormNext ==
    \/ NormalizeText
    \/ NormalizeAgain
    \/ CompareTexts
    \/ ComparePadded

NormSpec == NormInit /\ [][NormNext]_vars

\* The event loop runs every continuation that is ready, lets time pass while
\* a timer is pending and runs the callback of an expired timer.  Nothing
\* obliges a child to write, to exit or to close its streams.
Fairness ==
    /\ WF_vars(RunSingleTest)
    /\ WF_vars(Resume)
    /\ WF_vars(RunTestCasesReturn)
    /\ WF_vars(Tick)
    /\ \A k \in Slots : WF_vars(OnTimeout(k))

FairSpec == Spec /\ Fairness


(* ------------------------------ properties ----------------------------- *)
\* runTestCases has returned its result list to handleRunTests.
Returned == pc \in {"show", "cleanup"}

HasExitCode(k) == closeCode[k] # Null /\ closeCode[k] # NotClosed

\* The verdicts that the design calls InternalError: the result of the catch
\* clause and the result for a child that ended without an exit code.
IsInternalError(r) ==
    r.error.kind \in {"exception", "Process terminated unexpectedly"}

\* C1: the result list returned by runTestCases has one entry per test case,
\* and showTestResults reports as passed the number of entries with
\* passed = TRUE, out of a total equal to the number of test cases.
C1_ReportCounts ==
    /\ Returned => Len(results) = Len(testCases)
    /\ report.shown =>
         /\ report.totalTests = Len(testCases)
         /\ report.passedTests =
              Cardinality({k \in 1..Len(results) : results[k].passed})
         /\ report.entries = results

C1_Witness ==
    /\ report.shown
    /\ report.totalTests = 2
    /\ report.passedTests = 1

\* C2: the k-th result has testNumber k and the input and expected output of
\* the k-th test case, whatever ended the case; the returned list numbers the
\* cases 1..n without gap or repetition.
C2_ResultOrder ==
    /\ \A k \in 1..Len(results) :
         /\ results[k].testNumber = k
         /\ results[k].input = testCases[k].input
         /\ results[k].expectedOutput = testCases[k].output
    /\ Returned =>
         {results[k].testNumber : k \in 1..Len(results)} = 1..Len(testCases)

C2_Witness ==
    /\ Returned
    /\ Len(results) = 2
    /\ testCases[1] # testCases[2]
    /\ results[1].error = ErrTimeLimit
    /\ results[2].error.kind = "exception"

\* C3: a test whose timer fired, or whose child closed without an exit code,
\* never has a result with passed = TRUE, whatever the child printed and
\* whatever came later.
C3_KilledNeverAccepted ==
    \A k \in Slots :
      (timer[k] = "fired" \/ closeCode[k] = Null) =>
        /\ ~pvalue[k].passed
        /\ k <= Len(results) => ~results[k].passed

C3_Witness ==
    \E k \in 1..Len(results) :
      /\ closeCode[k] = Null
      /\ timer[k] = "cleared"
      /\ compareOutputs(stdout[k], testCases[k].output)

\* C4: a child whose exit with a nonzero code is observed before the timer
\* fires gets the Runtime Error result carrying that code, also when its
\* output equals the expected output.
C4_NonzeroExitRuntimeError ==
    \A k \in Slots :
      (HasExitCode(k) /\ closeCode[k][1] # 0 /\ timer[k] = "cleared") =>
        /\ pstate[k] = "fulfilled"
        /\ ~pvalue[k].passed
        /\ pvalue[k].error = ErrRuntime(closeCode[k][1], stderr[k])
        /\ k <= Len(results) => results[k] = pvalue[k]

C4_Witness ==
    \E k \in 1..Len(results) :
      /\ closeCode[k] = <<2>>
      /\ timer[k] = "cleared"
      /\ stdout[k] = testCases[k].output
      /\ results[k].error.kind = "Runtime Error"

C6_TimeoutVerdict ==
    \A k \in Slots :
      (timer[k] = "fired" /\ proc[k] \in {"terminating", "closed"}) =>
        /\ pstate[k] = "fulfilled"
        /\ ~pvalue[k].passed
        /\ pvalue[k].error = ErrTimeLimit
        /\ k <= Len(results) => results[k] = pvalue[k]

C6_Witness ==
    \E k \in 1..Len(results) :
      /\ timer[k] = "fired"
      /\ closeCode[k] = Null
      /\ results[k].error = ErrTimeLimit

\* C7: when the launch of the executable fails, every such test gets an
\* InternalError result, the list returned is complete, and no fault escapes
\* unhandled.
C7_LaunchFailureInternalError ==
    Returned =>
      /\ Len(results) = Len(testCases)
      /\ \A k \in 1..Len(results) :
           proc[k] = "failed" => IsInternalError(results[k])
      /\ unhandled = {}

\* C8: runSingleTest is called once for every test case, in input order,
\* whatever the results of the earlier cases.
C8_EveryCaseInvoked ==
    /\ \A n \in 1..Len(invoked) : invoked[n] = n
    /\ Len(invoked) <= Len(testCases)
    /\ Len(results) <= Len(invoked)
    /\ Returned => Len(invoked) = Len(testCases)

C8_Witness ==
    /\ Returned
    /\ invoked = <<1, 2>>
    /\ ~results[1].passed
    /\ results[1].error.kind = "exception"

\* C9: every exception raised while one test runs becomes the failed result
\* of the catch clause for that test (not passed, empty actual output, the
\* exception text as error, execution time 0, the test's number, input and
\* expected output), and none escapes.
C9_ExceptionsCaught ==
    \A k \in 1..Len(results) :
      (pstate[k] = "rejected" \/ k \in unhandled) =>
        /\ results[k].testNumber = k
        /\ results[k].input = testCases[k].input
        /\ results[k].expectedOutput = testCases[k].output
        /\ ~results[k].passed
        /\ results[k].actualOutput = <<>>
        /\ results[k].error.kind = "exception"
        /\ results[k].executionTime = 0

\* C10: a run that obtained the executable attempts to delete it before it
\* ends, whatever the outcome of the run.
C10_CleanupAlways ==
    (pc = "done" /\ executablePath # "none") => cleanups >= 1


\* The messages by which the catch of handleRunTests reports a failed run.
FailureTexts ==
    {"Test execution failed: Compilation failed",
     "Test execution failed: presentation",
     "Test execution failed: unlink"}

FailureShown ==
    \E n \in 1..Len(messages) : messages[n].text \in FailureTexts

\* C11: a failing deletion of the executable is swallowed: cleanup ends
\* normally, no 'Test execution failed' message is shown, and the results
\* computed and presented stay as they were.
C11_CleanupFailureSwallowed ==
    (cleanups >= 1 /\ exe = "present") =>
      /\ pc = "done"
      /\ ~FailureShown
      /\ report.shown
      /\ report.entries = results
      /\ Len(results) = Len(testCases)

C11_Witness ==
    /\ cleanups = 1
    /\ exe = "present"
    /\ Len(results) = 2
    /\ report.passedTests = 1

\* C12: for an empty list of test cases runTestCases returns the empty list
\* (total 0, passed 0), no child is spawned and no timer is armed.
C12_EmptySuite ==
    Len(testCases) = 0 =>
      /\ results = <<>>
      /\ invoked = <<>>
      /\ \A k \in Slots : proc[k] = "none" /\ timer[k] = "none"
      /\ report.shown => report.totalTests = 0 /\ report.passedTests = 0

C12_Witness ==
    /\ Len(testCases) = 0
    /\ report.shown
    /\ pc = "done"

\* C13: a failed compilation ends the run: no test case is run, no child is
\* spawned, no results are presented, and the compiler's diagnostic is the
\* message shown.
C13_CompileFailureTerminal ==
    (\E n \in 1..Len(messages) :
        messages[n].text = "Test execution failed: Compilation failed") =>
      /\ pc = "done"
      /\ executablePath = "none"
      /\ invoked = <<>>
      /\ results = <<>>
      /\ \A k \in Slots : proc[k] = "none" /\ timer[k] = "none"
      /\ ~report.shown
      /\ messages[Len(messages)] =
           [level |-> "error",
            text |-> "Test execution failed: Compilation failed"]

C13_Witness ==
    /\ pc = "done"
    /\ Len(testCases) = 2
    /\ Len(messages) = 2
    /\ messages[2].text = "Test execution failed: Compilation failed"

\* C14: when the promise of runSingleTest is fulfilled, the child of that
\* test is no longer running, on the exit path and on the timeout path.
C14_ChildGoneOnReturn ==
    \A k \in Slots :
      pstate[k] = "fulfilled" => proc[k] \notin {"running", "terminating"}

\* C20: at most one child started by the runner is alive at any time.
C20_OneChildAtATime ==
    Cardinality({k \in Slots : proc[k] \in {"running", "terminating"}}) <= 1


\* C15: every call of runSingleTest returns a result and every test case of
\* a suite gets its result, also when the child never terminates, never
\* closes its streams or fails to launch.
C15_EveryCaseClassified ==
    /\ \A k \in Slots : (pstate[k] = "pending") ~> (pstate[k] = "fulfilled")
    /\ (pc \in {"loop", "await"}) ~>
         (Returned /\ Len(results) = Len(testCases))

C15_Witness ==
    /\ Returned
    /\ Len(results) = 2
    /\ proc[1] = "terminating"
    /\ proc[2] = "failed"
    /\ closeCode[1] = NotClosed


(* ------------------ runSingleTest and the child's pipes ---------------- *)
\* One child seen at the level of its three pipes.  The child runs a program
\* of reads of one character from its standard input, writes of one
\* character to its standard output or standard error, and points where it
\* makes no progress; a pipe of the operating system holds at most PipeCap
\* characters, and a read or write that cannot be served blocks the child.
ChildOps == {"read", "out", "err", "hang"}
Programs == UNION {[1..n -> ChildOps] : n \in 0..MaxProg}

PipeInit ==
    /\ HandlerInit
    /\ testCases = <<>>
    /\ norm = NormOff
    /\ overlap = OverlapOff
    /\ view = ViewOff
    /\ scrape = ScrapeOff
    /\ \E p \in Programs, n \in 1..MaxIn :
         pipe = [PipeOff EXCEPT !.phase = "start", !.prog = p, !.toSend = n]

pipeRest == <<handlerVars, norm, overlap, view, scrape>>

\* The executor of runSingleTest: spawn, stdin.write(input + NL) and
\* stdin.end() (the text is queued by the stream and handed to the pipe as
\* the pipe takes it), the two 'data' listeners, the timer, the 'close'
\* listener.
PipeRunSingleTest ==
    /\ pipe.phase = "start"
    /\ pipe' = [pipe EXCEPT !.phase = "run", !.child = "running",
                            !.timer = "armed", !.resolved = "pending"]
    /\ UNCHANGED pipeRest

\* The stream of process.stdin hands the next queued character to the pipe.
PipeStdinFlush ==
    /\ pipe.phase = "run"
    /\ pipe.child = "running"
    /\ pipe.toSend > 0
    /\ pipe.inPipe < PipeCap
    /\ pipe' = [pipe EXCEPT !.toSend = @ - 1, !.inPipe = @ + 1]
    /\ UNCHANGED pipeRest

\* The child runs the next operation of its program, if it is not blocked.
\* A read on an empty pipe returns end-of-input once the runner has sent
\* everything and closed the write side.
ChildStep ==
    /\ pipe.phase = "run"
    /\ pipe.child = "running"
    /\ pipe.at <= Len(pipe.prog)
    /\ LET op == pipe.prog[pipe.at]
       IN  \/ /\ op = "read"
              /\ pipe.inPipe > 0
              /\ pipe' = [pipe EXCEPT !.inPipe = @ - 1, !.at = @ + 1]
           \/ /\ op = "read"
              /\ pipe.inPipe = 0
              /\ pipe.toSend = 0
              /\ pipe' = [pipe EXCEPT !.at = @ + 1]
           \/ /\ op = "out"
              /\ pipe.outPipe < PipeCap
              /\ pipe' = [pipe EXCEPT !.outPipe = @ + 1, !.at = @ + 1]
           \/ /\ op = "err"
              /\ pipe.errPipe < PipeCap
              /\ pipe' = [pipe EXCEPT !.errPipe = @ + 1, !.at = @ + 1]
    /\ UNCHANGED pipeRest

\* The child has run its program and exits.
ChildExit ==
    /\ pipe.phase = "run"
    /\ pipe.child = "running"
    /\ pipe.at > Len(pipe.prog)
    /\ pipe' = [pipe EXCEPT !.child = "exited"]
    /\ UNCHANGED pipeRest

\* process.stdout.on('data'): the listener is registered in the executor, so
\* the stream flows whenever the pipe holds something.
PipeStdoutData ==
    /\ pipe.phase = "run"
    /\ pipe.outPipe > 0
    /\ pipe' = [pipe EXCEPT !.outPipe = @ - 1, !.out = @ + 1]
    /\ UNCHANGED pipeRest

\* Variant of PipeStderrData: standard error is read only after the child
\* has ended.
PipeStderrDataAfterExit ==
    /\ pipe.phase = "run"
    /\ pipe.child # "running"
    /\ pipe.errPipe > 0
    /\ pipe' = [pipe EXCEPT !.errPipe = @ - 1, !.err = @ + 1]
    /\ UNCHANGED pipeRest

\* process.stderr.on('data')
PipeStderrData ==
    /\ pipe.phase = "run"
    /\ pipe.errPipe > 0
    /\ pipe' = [pipe EXCEPT !.errPipe = @ - 1, !.err = @ + 1]
    /\ UNCHANGED pipeRest

\* process.on('close'): the child has ended and both streams have been read
\* to their end.
PipeClose ==
    /\ pipe.phase = "run"
    /\ pipe.child \in {"exited", "killed"}
    /\ pipe.outPipe = 0
    /\ pipe.errPipe = 0
    /\ pipe' = [pipe EXCEPT
                  !.child = "closed",
                  !.timer = IF @ = "armed" THEN "cleared" ELSE @,
                  !.resolved = IF @ = "pending" THEN "exit" ELSE @]
    /\ UNCHANGED pipeRest

\* The callback of setTimeout: kill() (a SIGTERM, which the child may
\* ignore) and resolve.  The model does not relate the speed of the child to
\* the clock: the limit may elapse at any point of the run.
PipeTimeout ==
    /\ pipe.phase = "run"
    /\ pipe.timer = "armed"
    /\ \E after \in (IF pipe.child = "running" THEN {"running", "killed"}
                      ELSE {pipe.child}) :
         pipe' = [pipe EXCEPT
                    !.timer = "fired",
                    !.child = after,
                    !.resolved = IF @ = "pending" THEN "timeout" ELSE @]
    /\ UNCHANGED pipeRest

PipeNext ==
    \/ PipeRunSingleTest
    \/ PipeStdinFlush
    \/ ChildStep
    \/ ChildExit
    \/ PipeStdoutData
    \/ PipeStderrData
    \/ PipeClose
    \/ PipeTimeout

PipeSpec == PipeInit /\ [][PipeNext]_vars

\* The event loop of the runner serves every stream that is ready and every
\* expired timer; nothing is assumed about the progress of the child.
PipeFairness ==
    /\ WF_vars(PipeRunSingleTest)
    /\ WF_vars(PipeStdinFlush)
    /\ WF_vars(PipeStdoutData)
    /\ WF_vars(PipeStderrData)
    /\ WF_vars(PipeClose)
    /\ WF_vars(PipeTimeout)

FairPipeSpec == PipeSpec /\ PipeFairness

(* ----------------------- properties of the pipes ----------------------- *)
\* The child is blocked in a read or a write.
ChildBlocked ==
    /\ pipe.phase = "run"
    /\ pipe.child = "running"
    /\ pipe.at <= Len(pipe.prog)
    /\ pipe.prog[pipe.at] # "hang"
    /\ ~ENABLED ChildStep

\* C24: the runner and the child never deadlock on the pipes: whenever the
\* child is blocked in a read or a write the runner has a step that serves
\* the pipe, whatever the child wrote is read by the runner, also when the
\* child writes before it has read its input or waits for more input than
\* was sent, and the run ends by exit or by timeout.
C24_NoPipeDeadlock ==
    /\ [](ChildBlocked =>
            ENABLED (PipeStdinFlush \/ PipeStdoutData \/ PipeStderrData))
    /\ (pipe.outPipe > 0) ~> (pipe.outPipe = 0)
    /\ (pipe.errPipe > 0) ~> (pipe.errPipe = 0)
    /\ (pipe.phase = "run") ~> (pipe.resolved \in {"exit", "timeout"})

C24_Witness ==
    /\ pipe.prog = <<"err", "err", "read">>
    /\ pipe.err = 2
    /\ pipe.toSend = 0
    /\ pipe.child = "closed"
    /\ pipe.resolved = "exit"

(* ----------------------- ProblemWebviewProvider ------------------------ *)
\* The URLs a showProblem call may be given; "dummy" stands for a call
\* without URL, which shows getDummyProblemData().  The problem extracted
\* from a URL is named by the URL.
Urls == {"u1", "u2"}

ViewInit ==
    /\ HandlerInit
    /\ testCases = <<>>
    /\ norm = NormOff
    /\ overlap = OverlapOff
    /\ pipe = PipeOff
    /\ scrape = ScrapeOff
    /\ view = ViewOff

viewRest == <<handlerVars, norm, overlap, pipe, scrape>>

\* showProblem up to its await: reveal the panel or create a new one, then
\* start the extraction; without URL the dummy data are stored and shown at
\* once.
ShowProblem(url) ==
    /\ Len(view.calls) < MaxCalls
    /\ view' =
         [panel |-> "open",
          html |-> IF url = "dummy" THEN "dummy"
                   ELSE IF view.panel = "none" THEN "empty" ELSE view.html,
          currentProblemData |->
              IF url = "dummy" THEN "dummy" ELSE view.currentProblemData,
          calls |-> Append(view.calls,
                           [url |-> url,
                            state |-> IF url = "dummy" THEN "done"
                                      ELSE "extracting"])]
    /\ UNCHANGED viewRest

\* Variant of ExtractDone: the content is shown and currentProblemData is
\* left as it was.
ExtractDoneShowOnly(c) ==
    /\ c \in 1..Len(view.calls)
    /\ view.calls[c].state = "extracting"
    /\ view' = [view EXCEPT
                  !.html = IF view.panel = "none" THEN @ ELSE view.calls[c].url,
                  !.calls[c].state =
                      IF view.panel = "none" THEN "threw" ELSE "done"]
    /\ UNCHANGED viewRest

\* showProblem after its await: the extraction of call c has returned;
\* currentProblemData is assigned, then the content of the panel, which
\* throws when the panel has been disposed in the meantime.
ExtractDone(c) ==
    /\ c \in 1..Len(view.calls)
    /\ view.calls[c].state = "extracting"
    /\ view' = [view EXCEPT
                  !.currentProblemData = view.calls[c].url,
                  !.html = IF view.panel = "none" THEN @ ELSE view.calls[c].url,
                  !.calls[c].state =
                      IF view.panel = "none" THEN "threw" ELSE "done"]
    /\ UNCHANGED viewRest

\* The extraction of call c throws: showProblem ends at its await.
ExtractFail(c) ==
    /\ c \in 1..Len(view.calls)
    /\ view.calls[c].state = "extracting"
    /\ view' = [view EXCEPT !.calls[c].state = "failed"]
    /\ UNCHANGED viewRest

\* panel.onDidDispose: the user closes the panel.
DisposePanel ==
    /\ view.panel = "open"
    /\ view' = [view EXCEPT !.panel = "none", !.html = "empty"]
    /\ UNCHANGED viewRest

ViewNext ==
    \/ \E url \in Urls \cup {"dummy"} : ShowProblem(url)
    \/ \E c \in 1..MaxCalls : ExtractDone(c)
    \/ \E c \in 1..MaxCalls : ExtractFail(c)
    \/ DisposePanel

ViewSpec == ViewInit /\ [][ViewNext]_vars

(* ------------------ properties of ProblemWebviewProvider --------------- *)
\* C28: whenever a panel exists and shows a problem, that problem is the
\* one held in currentProblemData; a showProblem call whose extraction fails
\* changes neither currentProblemData nor what the panel shows.
C28_ShownIsCurrent ==
    /\ []((view.panel = "open" /\ view.html # "empty") =>
            view.html = view.currentProblemData)
    /\ [][\A c \in 1..Len(view.calls) :
            (view.calls[c].state = "extracting"
               /\ view'.calls[c].state = "failed") =>
              /\ view'.currentProblemData = view.currentProblemData
              /\ view'.html = view.html
              /\ view'.panel = view.panel]_vars

C28_Witness ==
    /\ Len(view.calls) = 3
    /\ view.calls[1].state = "threw"
    /\ view.calls[2].state = "done"
    /\ view.calls[3].state = "failed"
    /\ view.calls[3].url # view.calls[2].url
    /\ view.panel = "open"
    /\ view.html = view.calls[2].url

\* C29: when no showProblem call is in progress and the call requested last
\* has completed, the problem in currentProblemData and in the panel is the
\* one of that call, in whatever order the extractions completed.
C29_LastRequestWins ==
    LET n == Len(view.calls)
    IN  (/\ n >= 1
         /\ \A c \in 1..n : view.calls[c].state # "extracting"
         /\ view.calls[n].state = "done") =>
          /\ view.currentProblemData = view.calls[n].url
          /\ view.panel = "open" => view.html = view.calls[n].url

(* ----------------------------- ProblemScraper -------------------------- *)
\* The forms of URL given to extractProblemData: the two forms its patterns
\* match and one they do not.
ScrapeUrls == {"/problemset/problem/4/A", "/contest/4/problem/A", "/blog/4"}

\* url.match(...) || url.match(...)
urlMatch(url) ==
    url \in {"/problemset/problem/4/A", "/contest/4/problem/A"}

\* The awaited calls on the page inside the try of
\* scrapeWithOptimizedPuppeteer, in order.
PageSteps ==
    <<"newPage", "setRequestInterception", "setViewport", "setUserAgent",
      "goto", "waitForFunction", "evaluate">>

ScrapeInit ==
    /\ HandlerInit
    /\ testCases = <<>>
    /\ norm = NormOff
    /\ overlap = OverlapOff
    /\ pipe = PipeOff
    /\ view = ViewOff
    /\ \E url \in ScrapeUrls :
         scrape = [ScrapeOff EXCEPT !.pc = "call", !.url = url]

scrapeRest == <<handlerVars, norm, overlap, pipe, view>>

\* extractProblemData up to its first await.
ExtractProblemData ==
    /\ scrape.pc = "call"
    /\ scrape' = IF urlMatch(scrape.url)
                 THEN [scrape EXCEPT !.pc = "api"]
                 ELSE [scrape EXCEPT
                         !.pc = "thrown",
                         !.result = "Invalid Codeforces problem URL format"]
    /\ UNCHANGED scrapeRest

\* fetchFromCodeforcesAPI returns the problem (with or without rating) or
\* throws; the catch of extractProblemData then scrapes only.
FetchFromCodeforcesAPI ==
    /\ scrape.pc = "api"
    /\ \E outcome \in {"rated", "unrated", "failed"} :
         scrape' = [scrape EXCEPT
                      !.api = outcome,
                      !.attempt = IF outcome = "failed" THEN 2 ELSE 1,
                      !.pc = "launch"]
    /\ UNCHANGED scrapeRest

\* scrapeWithOptimizedPuppeteer has thrown: in the try of
\* extractProblemData the catch scrapes once more; in the catch the error
\* leaves extractProblemData.
ScrapeThrown(sc, cause) ==
    IF sc.attempt = 1
    THEN [sc EXCEPT !.attempt = 2, !.pc = "launch", !.failure = "none"]
    ELSE [sc EXCEPT !.pc = "thrown", !.failure = "none",
                    !.result = "Failed to scrape problem data"]

\* puppeteer.launch, before the try: a browser is open, or launch throws.
Launch ==
    /\ scrape.pc = "launch"
    /\ \E ok \in BOOLEAN :
         scrape' = IF ok
                   THEN [scrape EXCEPT !.open = @ + 1, !.launched = @ + 1,
                                       !.pc = "page", !.step = 1]
                   ELSE ScrapeThrown(scrape, "launch")
    /\ UNCHANGED scrapeRest

\* Variant of PageStep: no finally clause, the browser is closed on the
\* path without error only.
PageStepNoFinally ==
    /\ scrape.pc = "page"
    /\ \E ok \in BOOLEAN :
         scrape' =
           IF ok \/ PageSteps[scrape.step] = "waitForFunction"
           THEN IF scrape.step = Len(PageSteps)
                THEN [scrape EXCEPT !.pc = "close", !.step = 0]
                ELSE [scrape EXCEPT !.step = @ + 1]
           ELSE ScrapeThrown([scrape EXCEPT !.step = 0],
                             PageSteps[scrape.step])
    /\ UNCHANGED scrapeRest

\* One awaited call on the page: it returns, or throws; the error of
\* waitForFunction is caught on the spot, any other reaches the catch and
\* the finally of scrapeWithOptimizedPuppeteer.
PageStep ==
    /\ scrape.pc = "page"
    /\ \E ok \in BOOLEAN :
         scrape' =
           IF ok \/ PageSteps[scrape.step] = "waitForFunction"
           THEN IF scrape.step = Len(PageSteps)
                THEN [scrape EXCEPT !.pc = "close", !.step = 0]
                ELSE [scrape EXCEPT !.step = @ + 1]
           ELSE [scrape EXCEPT !.pc = "close", !.step = 0,
                               !.failure = PageSteps[scrape.step]]
    /\ UNCHANGED scrapeRest

\* finally: await browser.close(); then the return value or the error
\* leaves scrapeWithOptimizedPuppeteer.
BrowserClose ==
    /\ scrape.pc = "close"
    /\ LET closed == [scrape EXCEPT !.open = @ - 1]
       IN  scrape' =
             IF scrape.failure = "none"
             THEN [closed EXCEPT
                     !.pc = "returned",
                     !.result = IF scrape.attempt = 1 THEN "merged"
                                ELSE "scraped"]
             ELSE ScrapeThrown(closed, scrape.failure)
    /\ UNCHANGED scrapeRest

ScrapeNext ==
    \/ ExtractProblemData
    \/ FetchFromCodeforcesAPI
    \/ Launch
    \/ PageStep
    \/ BrowserClose

ScrapeSpec == ScrapeInit /\ [][ScrapeNext]_vars

(* ---------------------- properties of ProblemScraper ------------------- *)
\* C30: every browser launched by scrapeWithOptimizedPuppeteer is closed
\* before that call returns or throws, so that no browser is open between
\* the two scrapes of one extractProblemData call nor when the call has
\* completed.
C30_BrowserClosed ==
    /\ scrape.open \in {0, 1}
    /\ scrape.pc \in {"launch", "returned", "thrown"} => scrape.open = 0
    /\ scrape.pc \in {"page", "close"} => scrape.open = 1

C30_Witness ==
    /\ scrape.pc = "returned"
    /\ scrape.api = "rated"
    /\ scrape.attempt = 2
    /\ scrape.launched = 2
    /\ scrape.open = 0

(* ----------------------- properties of runSingleTest ------------------- *)
\* C21: every child that runs has its own armed timer; a child whose exit is
\* observed before its timer fires has the timer cancelled, the timer never
\* fires afterwards, a timer that fires touches no child but its own, and
\* the result of the case is the one built from the exit.
C21_TimerPerCase ==
    /\ [](\A k \in Slots :
            /\ proc[k] = "running" => timer[k] = "armed"
            /\ proc[k] = "closed" => timer[k] \in {"cleared", "fired"}
            /\ timer[k] = "cleared" =>
                 /\ proc[k] = "closed"
                 /\ pstate[k] = "fulfilled"
                 /\ pvalue[k].error = CloseResult(k, closeCode[k]).error
                 /\ pvalue[k].passed = CloseResult(k, closeCode[k]).passed
                 /\ pvalue[k].error # ErrTimeLimit)
    /\ [][\A k \in Slots :
            /\ timer[k] = "cleared" => timer'[k] = "cleared"
            /\ (timer[k] = "armed" /\ timer'[k] = "fired") =>
                 \A j \in Slots \ {k} : proc'[j] = proc[j]]_vars

C21_Witness ==
    /\ timer[1] = "cleared"
    /\ closeCode[1] = <<0>>
    /\ now - startTime[1] >= TIMEOUT
    /\ timer[2] = "fired"
    /\ Len(results) = 2
    /\ results[1].error # ErrTimeLimit

\* C22: a child that closes without an exit code before its timer fires
\* gets the result 'Process terminated unexpectedly' (not passed), and none
\* of Runtime Error, Wrong Answer, Time Limit Exceeded or Accepted.
C22_ExternalKillVerdict ==
    \A k \in Slots :
      (closeCode[k] = Null /\ timer[k] = "cleared") =>
        /\ pstate[k] = "fulfilled"
        /\ ~pvalue[k].passed
        /\ pvalue[k].error = ErrTerminated(stderr[k])
        /\ pvalue[k].error.kind \notin
             {"Runtime Error", "Wrong Answer", "Time Limit Exceeded", "null"}
        /\ k <= Len(results) => results[k] = pvalue[k]

C22_Witness ==
    \E k \in 1..Len(results) :
      /\ closeCode[k] = Null
      /\ timer[k] = "cleared"
      /\ stderr[k] # <<>>
      /\ results[k].error.kind = "Process terminated unexpectedly"

\* What the child can read from its standard input: the texts written, in
\* order, up to the first end().
RECURSIVE StdinText(_)
StdinText(ops) ==
    IF ops = <<>> \/ ops[1][1] = "end" THEN <<>>
    ELSE ops[1][2] \o StdinText(Tail(ops))

\* The child reads end-of-input after the text: the write side was closed.
StdinEnded(ops) == \E n \in 1..Len(ops) : ops[n][1] = "end"

\* C23: for every test case the runner writes the input (and a line feed)
\* to the child's standard input and then closes the write side, each exactly
\* once and in that order, so that the child reads the whole input and then
\* end-of-input.
C23_StdinWrittenThenClosed ==
    \A k \in Slots :
      proc[k] # "none" =>
        /\ Len(stdin[k]) = 2
        /\ stdin[k][1] = <<"write", testCases[k].input \o <<NL>> >>
        /\ stdin[k][2] = <<"end", <<>> >>
        /\ StdinText(stdin[k]) = testCases[k].input \o <<NL>>
        /\ StdinEnded(stdin[k])

C23_Witness ==
    /\ Len(testCases) = 2
    /\ proc[1] = "closed"
    /\ proc[2] = "running"
    /\ StdinText(stdin[2]) = <<"3", NL>>
    /\ StdinEnded(stdin[2])

\* C25: the result of a case ended by its timer carries the verdict Time
\* Limit Exceeded and, as actual output, the stdout chunks received before
\* the timer fired, concatenated in the order of their arrival.
C25_TimeoutPartialOutput ==
    [][\A k \in Slots :
         /\ stdout'[k] # stdout[k] =>
              \E chunk \in OutChunks : stdout'[k] = stdout[k] \o chunk
         /\ (timer[k] = "armed" /\ timer'[k] = "fired") =>
              /\ pstate[k] = "pending"
              /\ pstate'[k] = "fulfilled"
              /\ pvalue'[k].actualOutput = stdout[k]
              /\ pvalue'[k].error = ErrTimeLimit
              /\ ~pvalue'[k].passed
         /\ (timer[k] = "fired" /\ k <= Len(results')) =>
              /\ results'[k].actualOutput = pvalue[k].actualOutput
              /\ results'[k].error = ErrTimeLimit]_vars

C25_Witness ==
    \E k \in 1..Len(results) :
      /\ timer[k] = "fired"
      /\ results[k].error = ErrTimeLimit
      /\ results[k].actualOutput = <<NL, "a">>

\* C26: the result of a test case is fixed by the first of the timer's
\* callback and the 'close' event: what arrives later (the 'close' caused by
\* the kill, late chunks) changes neither the settled promise nor the entry
\* pushed for the case, and adds no entry.
C26_FirstTerminalEventWins ==
    /\ [](/\ Len(results) <= Len(testCases)
          /\ \A k \in 1..Len(results) :
               pstate[k] = "fulfilled" => results[k] = pvalue[k])
    /\ [][/\ \A k \in Slots :
              pstate[k] = "fulfilled" =>
                pstate'[k] = "fulfilled" /\ pvalue'[k] = pvalue[k]
          /\ \A k \in 1..Len(results) :
              Len(results') >= Len(results) /\ results'[k] = results[k]]_vars

C26_Witness ==
    \E k \in 1..Len(results) :
      /\ timer[k] = "fired"
      /\ closeCode[k] = <<0>>
      /\ results[k].error = ErrTimeLimit
      /\ stdout[k] # results[k].actualOutput
      /\ compareOutputs(stdout[k], testCases[k].output)

\* The messages of the guards of handleRunTests.
GuardTexts ==
    {"No problem data exisis", "Please open a C++ file to run tests"}

\* C27: a call without problem data, without an active editor or with an
\* active file that is not a .cpp file shows an error and does nothing else:
\* no compilation, no child, no deletion.
C27_GuardsDoNothingElse ==
    (\E n \in 1..Len(messages) : messages[n].text \in GuardTexts) =>
      /\ pc = "done"
      /\ Len(messages) = 1
      /\ messages[1].level = "error"
      /\ executablePath = "none"
      /\ exe = "absent"
      /\ invoked = <<>>
      /\ results = <<>>
      /\ \A k \in Slots : proc[k] = "none" /\ timer[k] = "none"
      /\ cleanups = 0
      /\ ~report.shown

C27_Witness ==
    /\ pc = "done"
    /\ Len(testCases) = 2
    /\ messages = <<[level |-> "error",
                     text |-> "Please open a C++ file to run tests"]>>

(* --------------- two handleRunTests calls for one source file ---------- *)
\* The 'runTests' message handler calls handleRunTests without awaiting it,
\* so a second message starts a second call while the first is suspended at
\* an await. Both calls compute the same executablePath.
Runs == {1, 2}

OverlapInit ==
    /\ HandlerInit
    /\ testCases = <<>>
    /\ norm = NormOff
    /\ pipe = PipeOff
    /\ view = ViewOff
    /\ scrape = ScrapeOff
    /\ \E n \in 0..MaxCases : overlap = [OverlapOff EXCEPT !.n = n]

\* handleRunTests up to the call of compileCppFile
OvStart(r) ==
    /\ overlap.run[r] = "off"
    /\ overlap' = [overlap EXCEPT !.run[r] = "compile"]
    /\ UNCHANGED <<handlerVars, norm, pipe, view, scrape>>

\* The callback of cp.exec in compileCppFile: g++ has written the executable,
\* or has failed and the call ends in the catch of handleRunTests.
OvCompileDone(r) ==
    /\ overlap.run[r] = "compile"
    /\ \/ overlap' = [overlap EXCEPT !.run[r] = "tests", !.cur[r] = 0,
                                     !.artifact = "present",
                                     !.version = @ + 1]
       \/ overlap' = [overlap EXCEPT !.run[r] = "done"]
    /\ UNCHANGED <<handlerVars, norm, pipe, view, scrape>>

\* runSingleTest of the next test case: spawn(executablePath)
OvSpawn(r) ==
    /\ overlap.run[r] = "tests"
    /\ overlap.child[r] = "none"
    /\ overlap.cur[r] < overlap.n
    /\ overlap' = [overlap EXCEPT
                     !.cur[r] = @ + 1,
                     !.child[r] = IF overlap.artifact = "present"
                                  THEN "running" ELSE "failed"]
    /\ UNCHANGED <<handlerVars, norm, pipe, view, scrape>>

\* 'close' or the timer ends the current test case
OvTestDone(r) ==
    /\ overlap.run[r] = "tests"
    /\ overlap.child[r] # "none"
    /\ overlap' = [overlap EXCEPT !.child[r] = "none"]
    /\ UNCHANGED <<handlerVars, norm, pipe, view, scrape>>

\* runTestCases has returned: showTestResults, then cleanup(executablePath),
\* whose unlinkSync may fail (the failure is swallowed).
OvFinish(r) ==
    /\ overlap.run[r] = "tests"
    /\ overlap.child[r] = "none"
    /\ overlap.cur[r] = overlap.n
    /\ \E after \in {"absent", overlap.artifact} :
         overlap' = [overlap EXCEPT !.run[r] = "done", !.artifact = after]
    /\ UNCHANGED <<handlerVars, norm, pipe, view, scrape>>

OverlapNext ==
    \E r \in Runs :
      \/ OvStart(r)
      \/ OvCompileDone(r)
      \/ OvSpawn(r)
      \/ OvTestDone(r)
      \/ OvFinish(r)

OverlapSpec == OverlapInit /\ [][OverlapNext]_vars

(* ---------------------- properties of overlapping runs ----------------- *)
\* The run r is between the end of its compilation and the end of its last
\* test case.
InTests(r) ==
    /\ overlap.run[r] = "tests"
    /\ \/ overlap.cur[r] < overlap.n
       \/ overlap.child[r] # "none"

\* C16: from the end of a run's compilation until its last test case has
\* finished, no step deletes or rewrites the executable artifact.
C16_ArtifactExclusive ==
    [][\A r \in Runs :
         InTests(r) => /\ overlap'.artifact = overlap.artifact
                       /\ overlap'.version = overlap.version]_vars

(* ---------------------- properties of compareOutputs ------------------- *)
\* C17: normalizing a normalized text gives the same text again.
C17_NormalizeIdempotent ==
    norm.phase = "twice" => norm.nna = norm.na

C17_Witness ==
    /\ norm.phase = "twice"
    /\ norm.a = <<"a", NL, NL>>
    /\ norm.na = <<"a">>

\* The lines of a text that are not blank, without their trailing spaces.
RECURSIVE NonBlank(_)
NonBlank(lines) ==
    IF lines = <<>> THEN <<>>
    ELSE IF lines[1] = <<>> THEN NonBlank(Tail(lines))
    ELSE <<lines[1]>> \o NonBlank(Tail(lines))

ContentLines(t) == NonBlank([k \in 1..Len(split(t)) |-> trimEnd(split(t)[k])])

Occurrences(ls, l) == Cardinality({k \in 1..Len(ls) : ls[k] = l})

\* The same lines in a different order.
Reordered(x, y) ==
    /\ x # y
    /\ Len(x) = Len(y)
    /\ \A k \in 1..Len(x) : Occurrences(x, x[k]) = Occurrences(y, x[k])

\* C18: spaces added at the end of a line, and line feeds added at the end
\* of the text, of either argument do not change the result of
\* compareOutputs; texts with the same non-blank lines in a different order
\* compare as unequal.
C18_PaddingAndOrder ==
    /\ norm.phase = "padded" => norm.cmp2 = norm.cmp
    /\ (norm.phase \in {"compared", "padded"}
          /\ Reordered(ContentLines(norm.a), ContentLines(norm.b)))
         => ~norm.cmp

C18_Witness ==
    /\ norm.phase = "padded"
    /\ norm.cmp
    /\ norm.a = <<"a", NL, "b">>
    /\ norm.pa = <<"a", SP, SP, NL, "b">>

\* The reference normalizer: split into lines, strip the trailing white
\* space of each line, drop the blank lines at the start and at the end, and
\* join with single line feeds.
RECURSIVE DropLeadingBlank(_)
DropLeadingBlank(lines) ==
    IF lines # <<>> /\ lines[1] = <<>> THEN DropLeadingBlank(Tail(lines))
    ELSE lines

RECURSIVE DropTrailingBlank(_)
DropTrailingBlank(lines) ==
    IF lines # <<>> /\ lines[Len(lines)] = <<>>
    THEN DropTrailingBlank(SubSeq(lines, 1, Len(lines) - 1))
    ELSE lines

ReferenceNormalize(t) ==
    join(DropTrailingBlank(DropLeadingBlank(
           [k \in 1..Len(split(t)) |-> trimEnd(split(t)[k])])))

\* C19: the normalizer gives the result of the reference procedure, which
\* removes trailing white space of lines and leading and trailing blank
\* lines, and nothing else.
C19_NormalizeIsReference ==
    norm.phase \in {"normalized", "twice"} =>
      norm.na = ReferenceNormalize(norm.a)

====
